---- MODULE Spec2Model ----
(***************************************************************************)
(* PromptCraft desktop: the job store (db/operations.rs), the command      *)
(* layer over it (commands.rs) and the background Job Processor            *)
(* (generation/processor.rs).                                              *)
(*                                                                         *)
(* Every SQL statement is one atomic step of the store; the awaits between *)
(* the statements of one JobOps::update are points where other tasks run   *)
(* and where the statement can fail (sqlx returns Err).                    *)
(***************************************************************************)
EXTENDS Integers, Sequences, FiniteSets, TLC

(***************************** bounds **************************************)
MaxJobs == 2        \* jobs the command layer creates
MaxClock == 2       \* distinct values of now()
MaxFaults == 1      \* store statements that fail
MaxCmds == 1        \* update_job / delete_job commands
MaxCallers == 2     \* concurrent callers of JobProcessor::start
MaxStarts == 3      \* calls of JobProcessor::start
MaxLoops == 2       \* background loops ever spawned
MaxStops == 1       \* calls of JobProcessor::stop
NBatch == 11        \* jobs already stored when SpecBatch begins
MaxCalls == 2       \* calls of GenerationService::generate
MaxUnknown == 2     \* poll responses with a status the OpenAI poller does not list
MaxCfgs == 2        \* configure_provider / configure_local_provider commands
MaxChunks == 6      \* pieces a data URL given to extract_base64_from_data_url is made of

(***************************** constants ***********************************)
BatchLimit == 10    \* LIMIT 10 of the pending-jobs query

\* poll_video_generation of GoogleProvider (milliseconds)
GoogleFirstDelay == 10000
GoogleDelayStep == 5000
GoogleMaxDelay == 60000
GoogleMaxAttempts == 60

\* poll_video_generation of OpenAIProvider (milliseconds)
OpenAIFirstDelay == 5000
OpenAIDelayFactor == 2
OpenAIMaxDelay == 60000
OpenAIMaxAttempts == 60

\* poll_for_completion of ComfyUIProvider (milliseconds)
ComfyDelay == 1000
ComfyMaxAttempts == 60

NULL == "NULL"      \* an unset TEXT column or a None string
NoTime == 0         \* an unset timestamp column (now() is at least 1)
NoScene == 0        \* scene_id IS NULL
None == <<>>        \* Option::None of a structured value; Some(x) is <<x>>

Callers == 1..MaxCallers
LoopIds == 1..MaxLoops

VARIABLES
  jobs,        \* the jobs table: id -> row
  scenes,      \* the scenes table: scene id -> thumbnail
  clock,       \* what now() returns
  is_running,  \* JobProcessor.is_running
  lock,        \* write holder of the is_running RwLock (0: none)
  callers,     \* caller of start() -> its position in start()
  loops,       \* spawned loop -> its position and locals
  inflight,    \* GenerationService.generate calls in flight: <<loop, job id>>
  budget,      \* what the environment may still do
  hist,        \* job id -> the successive values of its status column
  seen,        \* loop -> ids that were pending when its last fetch ran
  trace,       \* loop -> what the loop did to the jobs of its current batch
  svc          \* the generation side: media files, the provider call under way

vars == <<jobs, scenes, clock, is_running, lock, callers, loops, inflight,
          budget, hist, seen, trace, svc>>

(***************************** job documents *******************************)
\* serde_json::Value of the `data` column, as far as process_job reads it:
\* the kind of value stored under "provider" and under "prompt".
ValidData == [provider |-> "string", prompt |-> "string"]
NoProvider == [provider |-> "absent", prompt |-> "string"]
NoPrompt == [provider |-> "string", prompt |-> "absent"]
NumericPrompt == [provider |-> "string", prompt |-> "number"]
NonObject == [provider |-> "absent", prompt |-> "absent"]
DataDocs == {ValidData, NoProvider, NoPrompt, NumericPrompt, NonObject}

\* job_data.get(field).and_then(|v| v.as_str()) is Some
HasStr(data, field) ==
  IF field = "provider" THEN data.provider = "string" ELSE data.prompt = "string"

StoreError == "store error"
JobNotFound == "Job not found"
MissingProvider == "Missing provider in job data"
MissingPrompt == "Missing prompt in job data"
ProviderError == "provider error"

\* GenerationResult as far as the processor reads it
GenResults ==
  { [output_url |-> "url", output_data |-> NULL],
    [output_url |-> NULL, output_data |-> "text"] }

\* serde_json::to_value then serde_json::to_string of a GenerationResult
Serialize(r) == [json |-> r]

(***************************** the store ***********************************)
NewJob(data, scene, now) ==
  [exists |-> TRUE, status |-> "pending", data |-> data, scene_id |-> scene,
   result |-> None, error |-> NULL, created_at |-> now,
   started_at |-> NoTime, completed_at |-> NoTime]

Live(js, id) == id \in DOMAIN js /\ js[id].exists

\* UPDATE jobs SET status = ?, started_at = COALESCE(started_at, ?),
\*                 completed_at = ? WHERE id = ?
StartedAtBind(status, now) == IF status = "running" THEN now ELSE NoTime

\* (mutant: only completed binds a completion time)
CompletedAtBindCompletedOnly(status, now) == IF status = "completed" THEN now ELSE NoTime

CompletedAtBind(status, now) ==
  IF status \in {"completed", "failed"} THEN now ELSE NoTime

\* (mutant: started_at = ? instead of COALESCE(started_at, ?))
CoalesceOverwrite(a, b) == IF b # NoTime THEN b ELSE a

Coalesce(a, b) == IF a # NoTime THEN a ELSE b

\* (mutant: running is written only over pending: WHERE id = ? AND status = 'pending')
StmtStatusClaim(js, id, status, now) ==
  IF Live(js, id) /\ (status = "running" => js[id].status = "pending")
    THEN [js EXCEPT ![id].status = status,
                    ![id].started_at = Coalesce(@, StartedAtBind(status, now)),
                    ![id].completed_at = CompletedAtBind(status, now)]
    ELSE js

StmtStatus(js, id, status, now) ==
  IF Live(js, id)
    THEN [js EXCEPT ![id].status = status,
                    ![id].started_at = Coalesce(@, StartedAtBind(status, now)),
                    ![id].completed_at = CompletedAtBind(status, now)]
    ELSE js

\* UPDATE jobs SET result = ? WHERE id = ?
StmtResult(js, id, r) ==
  IF Live(js, id) THEN [js EXCEPT ![id].result = <<r>>] ELSE js

\* UPDATE jobs SET error = ? WHERE id = ?
StmtError(js, id, e) ==
  IF Live(js, id) THEN [js EXCEPT ![id].error = e] ELSE js

\* the status history follows the status column
Record(h, js) ==
  [id \in DOMAIN js |->
     IF id \in DOMAIN h
       THEN (IF js[id].status = h[id][Len(h[id])] THEN h[id]
             ELSE Append(h[id], js[id].status))
       ELSE <<js[id].status>>]

\* SELECT * FROM jobs WHERE status = 'pending' ORDER BY created_at ASC LIMIT 10
PendingIds(js) == {id \in DOMAIN js : js[id].exists /\ js[id].status = "pending"}

RECURSIVE SortedSeqs(_, _)
SortedSeqs(js, S) ==
  IF S = {} THEN {<<>>}
  ELSE LET first == {i \in S : \A j \in S : js[i].created_at <= js[j].created_at}
       IN UNION {{<<i>> \o t : t \in SortedSeqs(js, S \ {i})} : i \in first}

\* (mutant: the query without its LIMIT)
TakeAll(s, n) == s

Take(s, n) == IF Len(s) <= n THEN s ELSE SubSeq(s, 1, n)

FetchPending(js) == {Take(s, BatchLimit) : s \in SortedSeqs(js, PendingIds(js))}

(***************************** initial state *******************************)
\* the structs that implement GenerationProvider, by their name()
Providers ==
  {"anthropic", "openai", "google", "grok", "a1111", "comfyui", "invokeai", "midjourney"}

\* an entry of GenerationService::providers: the instance under a name and the
\* credential or endpoint in its config (0: config is None)
Absent == [present |-> FALSE, cred |-> 0]
Placeholder == [present |-> TRUE, cred |-> 0]
Configured(cred) == [present |-> TRUE, cred |-> cred]

\* init_generation_service: the instances registered at start-up
StartupProviders == {"anthropic", "openai", "google", "grok"}

StartupRegistry ==
  [n \in Providers |-> IF n \in StartupProviders THEN Placeholder ELSE Absent]

\* no media file written, no provider call under way, the registry of
\* start-up, nobody holding or awaiting the RwLock of the service, no job
\* handed to generate so far
IdleSvc ==
  [files |-> <<>>, call |-> None, registry |-> StartupRegistry, readers |-> 0,
   waiting |-> None, resolved |-> None, outcome |-> "none", util |-> None,
   submitted |-> {}]

IdleLoop ==
  [pc |-> "none", batch |-> <<>>, idx |-> 0, err |-> NULL, res |-> None,
   fetch_err |-> FALSE, handled |-> "none"]

NoBudget ==
  [creates |-> 0, faults |-> 0, cmds |-> 0, starts |-> 0, stops |-> 0, stopped |-> 0,
   calls |-> 0, cfgs |-> 0]

InitJobSide(b) ==
  /\ jobs = <<>>
  /\ scenes = [s \in {1} |-> NULL]
  /\ clock = 1
  /\ is_running = FALSE
  /\ lock = 0
  /\ callers = [c \in Callers |-> "idle"]
  /\ loops = [l \in LoopIds |-> IdleLoop]
  /\ inflight = {}
  /\ budget = b
  /\ hist = <<>>
  /\ seen = [l \in LoopIds |-> {}]
  /\ trace = [l \in LoopIds |-> <<>>]

InitWith(b) == InitJobSide(b) /\ svc = IdleSvc

\* the application after setup: an empty store, the processor started once.
\* A behaviour meets store faults or update/delete commands.
Init ==
  \/ InitWith([NoBudget EXCEPT !.creates = MaxJobs, !.faults = MaxFaults, !.starts = 1])
  \/ InitWith([NoBudget EXCEPT !.creates = MaxJobs, !.cmds = MaxCmds, !.starts = 1])

(***************************** command layer *******************************)
\* now() read by a later call
Tick ==
  /\ clock < MaxClock
  /\ clock' = clock + 1
  /\ UNCHANGED <<svc, jobs, scenes, is_running, lock, callers, loops, inflight,
                 budget, hist, seen, trace>>

\* create_job: JobOps::create inserts the row as pending
CreateJob(data, scene) ==
  /\ budget.creates > 0
  /\ jobs' = Append(jobs, NewJob(data, scene, clock))
  /\ hist' = Record(hist, jobs')
  /\ budget' = [budget EXCEPT !.creates = @ - 1]
  /\ UNCHANGED <<svc, scenes, clock, is_running, lock, callers, loops, inflight,
                 seen, trace>>

\* submit_generation: the document always carries provider and prompt strings
SubmitGeneration ==
  /\ budget.creates > 0
  /\ jobs' = Append(jobs, NewJob(ValidData, NoScene, clock))
  /\ hist' = Record(hist, jobs')
  /\ budget' = [budget EXCEPT !.creates = @ - 1]
  /\ UNCHANGED <<svc, scenes, clock, is_running, lock, callers, loops, inflight,
                 seen, trace>>

\* JobOps::update: the statements in order, up to the one that fails
\* (failAt = 0: none fails). A statement whose input is None is skipped.
JobOpsUpdate(js, id, input, now, failAt) ==
  LET s1 == IF input.status # NULL /\ failAt # 1
              THEN StmtStatus(js, id, input.status, now) ELSE js
      stop1 == input.status # NULL /\ failAt = 1
      s2 == IF ~stop1 /\ input.result # None /\ failAt # 2
              THEN StmtResult(s1, id, Serialize(input.result[1])) ELSE s1
      stop2 == stop1 \/ (input.result # None /\ failAt = 2)
      s3 == IF ~stop2 /\ input.error # NULL /\ failAt # 3
              THEN StmtError(s2, id, input.error) ELSE s2
  IN s3

\* UpdateJobInput values the front end sends
UpdateInputs ==
  { [status |-> "pending", result |-> None, error |-> NULL],
    [status |-> "running", result |-> None, error |-> NULL],
    [status |-> "completed", result |-> <<[output_url |-> "url", output_data |-> NULL]>>, error |-> NULL],
    [status |-> "failed", result |-> None, error |-> "user error"],
    [status |-> NULL, result |-> <<[output_url |-> "url", output_data |-> NULL]>>, error |-> NULL],
    [status |-> NULL, result |-> None, error |-> "user error"] }

\* update_job: the command hands its input to JobOps::update
UpdateJobCmd(id, input, failAt) ==
  /\ budget.cmds > 0
  /\ id \in DOMAIN jobs
  /\ jobs' = JobOpsUpdate(jobs, id, input, clock, failAt)
  /\ hist' = Record(hist, jobs')
  /\ budget' = [budget EXCEPT !.cmds = @ - 1]
  /\ UNCHANGED <<svc, scenes, clock, is_running, lock, callers, loops, inflight,
                 seen, trace>>

\* delete_job: DELETE FROM jobs WHERE id = ?
DeleteJob(id) ==
  /\ budget.cmds > 0
  /\ Live(jobs, id)
  /\ jobs' = [jobs EXCEPT ![id].exists = FALSE]
  /\ budget' = [budget EXCEPT !.cmds = @ - 1]
  /\ UNCHANGED <<svc, scenes, clock, is_running, lock, callers, loops, inflight,
                 hist, seen, trace>>

(***************************** JobProcessor::start / stop ******************)
SpawnedLoops == {l \in LoopIds : loops[l].pc # "none"}

\* (mutant: the flag is tested and set without exclusive access)
CanWriteUnguarded(c) == TRUE

\* self.is_running.write().await is granted
CanWrite(c) == lock = 0

StartLock(c) ==
  /\ callers[c] = "idle"
  /\ budget.starts > 0
  /\ CanWrite(c)
  /\ lock' = c
  /\ callers' = [callers EXCEPT ![c] = "locked"]
  /\ budget' = [budget EXCEPT !.starts = @ - 1]
  /\ UNCHANGED <<svc, jobs, scenes, clock, is_running, loops, inflight,
                 hist, seen, trace>>

\* if *is_running { return; }   (the guard is dropped on return)
StartCheck(c) ==
  /\ callers[c] = "locked"
  /\ IF is_running
       THEN /\ callers' = [callers EXCEPT ![c] = "idle"]
            /\ lock' = IF lock = c THEN 0 ELSE lock
       ELSE /\ callers' = [callers EXCEPT ![c] = "set"]
            /\ lock' = lock
  /\ UNCHANGED <<svc, jobs, scenes, clock, is_running, loops, inflight,
                 budget, hist, seen, trace>>

\* *is_running = true; drop(is_running);
StartSet(c) ==
  /\ callers[c] = "set"
  /\ is_running' = TRUE
  /\ lock' = IF lock = c THEN 0 ELSE lock
  /\ callers' = [callers EXCEPT ![c] = "spawn"]
  /\ UNCHANGED <<svc, jobs, scenes, clock, loops, inflight,
                 budget, hist, seen, trace>>

\* tokio::spawn(async move { while ... })
StartSpawn(c) ==
  /\ callers[c] = "spawn"
  /\ \E l \in LoopIds :
       /\ loops[l].pc = "none"
       /\ \A k \in LoopIds : k < l => loops[k].pc # "none"
       /\ loops' = [loops EXCEPT ![l].pc = "check"]
  /\ callers' = [callers EXCEPT ![c] = "idle"]
  /\ UNCHANGED <<svc, jobs, scenes, clock, is_running, lock, inflight,
                 budget, hist, seen, trace>>

\* stop: takes the write lock and clears the flag
Stop ==
  /\ budget.stops > 0
  /\ lock = 0
  /\ is_running' = FALSE
  /\ budget' = [budget EXCEPT !.stops = @ - 1, !.stopped = @ + 1]
  /\ UNCHANGED <<svc, jobs, scenes, clock, lock, callers, loops, inflight,
                 hist, seen, trace>>

(***************************** the background loop *************************)
CurJob(l) == loops[l].batch[loops[l].idx]

Spend == [budget EXCEPT !.faults = @ - 1]

\* (mutant: the error of process_pending_jobs leaves the while loop)
AfterFetchErrorExit == "exited"

\* where the loop goes when process_pending_jobs returns Err: the error is
\* printed and the loop sleeps
AfterFetchError == "sleep"

\* (mutant: the failure of a job ends the for loop)
AfterJobErrorAbort == "sleep"

\* where the for loop goes once the failure of a job has been handled
AfterJobError == "iter"

\* (mutant: the generate call is detached and the for loop goes on)
AfterGenerateBeginDetached == "iter"

\* the loop awaits the generate call it has begun
AfterGenerateBegin == "gen_wait"

\* process_job returns Err(e): the caller marks the job failed
Raise(l, e) == [loops EXCEPT ![l].err = e, ![l].pc = "fail_status"]

\* while *is_running.read().await
LoopCheck(l) ==
  /\ loops[l].pc = "check"
  /\ lock = 0
  /\ loops' = [loops EXCEPT ![l].pc = IF is_running THEN "fetch" ELSE "exited",
                            ![l].fetch_err = FALSE]
  /\ UNCHANGED <<svc, jobs, scenes, clock, is_running, lock, callers, inflight,
                 budget, hist, seen, trace>>

\* the pending-jobs query of process_pending_jobs
Fetch(l, ok) ==
  /\ loops[l].pc = "fetch"
  /\ ok \/ budget.faults > 0
  /\ IF ok
       THEN /\ \E b \in FetchPending(jobs) :
                 loops' = [loops EXCEPT ![l].pc = "iter", ![l].batch = b, ![l].idx = 0]
            /\ seen' = [seen EXCEPT ![l] = PendingIds(jobs)]
            /\ budget' = budget
       ELSE /\ loops' = [loops EXCEPT ![l].pc = AfterFetchError, ![l].batch = <<>>,
                                      ![l].idx = 0, ![l].fetch_err = TRUE]
            /\ seen' = [seen EXCEPT ![l] = {}]
            /\ budget' = Spend
  /\ trace' = [trace EXCEPT ![l] = <<>>]
  /\ UNCHANGED <<svc, jobs, scenes, clock, is_running, lock, callers, inflight, hist>>

\* for job in pending_jobs
Iter(l) ==
  /\ loops[l].pc = "iter"
  /\ loops' = IF loops[l].idx < Len(loops[l].batch)
                THEN [loops EXCEPT ![l].pc = "run_status", ![l].idx = @ + 1,
                                   ![l].err = NULL, ![l].res = None,
                                   ![l].handled = "none"]
                ELSE [loops EXCEPT ![l].pc = "sleep", ![l].handled = "none"]
  /\ UNCHANGED <<svc, jobs, scenes, clock, is_running, lock, callers, inflight,
                 budget, hist, seen, trace>>

\* (mutant: the flag is read once, before a loop {} that never reads it again)
AfterSleepNoCheck == "fetch"

\* after the sleep the while condition is evaluated again
AfterSleep == "check"

\* tokio::time::sleep(5 s)
Sleep(l) ==
  /\ loops[l].pc = "sleep"
  /\ loops' = [loops EXCEPT ![l].pc = AfterSleep]
  /\ UNCHANGED <<svc, jobs, scenes, clock, is_running, lock, callers, inflight,
                 budget, hist, seen, trace>>

\* process_job, mark running: the UPDATE of JobOps::update
RunStatus(l, ok) ==
  /\ loops[l].pc = "run_status"
  /\ ok \/ budget.faults > 0
  /\ IF ok
       THEN /\ jobs' = StmtStatus(jobs, CurJob(l), "running", clock)
            /\ loops' = [loops EXCEPT ![l].pc = "run_get"]
            /\ budget' = budget
       ELSE /\ jobs' = jobs
            /\ loops' = Raise(l, StoreError)
            /\ budget' = Spend
  /\ hist' = Record(hist, jobs')
  /\ trace' = [trace EXCEPT ![l] = Append(@, <<CurJob(l), "mark">>)]
  /\ UNCHANGED <<svc, scenes, clock, is_running, lock, callers, inflight, seen>>

\* process_job, mark running: the closing Self::get of JobOps::update
RunGet(l, ok) ==
  /\ loops[l].pc = "run_get"
  /\ ok \/ budget.faults > 0
  /\ IF ok
       THEN /\ loops' = IF Live(jobs, CurJob(l))
                          THEN [loops EXCEPT ![l].pc = "parse"]
                          ELSE Raise(l, JobNotFound)
            /\ budget' = budget
       ELSE /\ loops' = Raise(l, StoreError)
            /\ budget' = Spend
  /\ UNCHANGED <<svc, jobs, scenes, clock, is_running, lock, callers, inflight,
                 hist, seen, trace>>

\* (mutant: the prompt lookup falls back to a default)
ValidateProviderOnly(data) ==
  IF ~HasStr(data, "provider") THEN MissingProvider ELSE NULL

\* the provider and prompt lookups of process_job: the error, or NULL
Validate(data) ==
  IF ~HasStr(data, "provider") THEN MissingProvider
  ELSE IF ~HasStr(data, "prompt") THEN MissingPrompt
  ELSE NULL

\* process_job: parse the document and build the request
Parse(l) ==
  /\ loops[l].pc = "parse"
  /\ loops' = IF Validate(jobs[CurJob(l)].data) # NULL
                THEN Raise(l, Validate(jobs[CurJob(l)].data))
                ELSE [loops EXCEPT ![l].pc = "gen_begin"]
  /\ UNCHANGED <<svc, jobs, scenes, clock, is_running, lock, callers, inflight,
                 budget, hist, seen, trace>>

\* service_lock.generate(provider, request) is called
GenerateBegin(l) ==
  /\ loops[l].pc = "gen_begin"
  /\ inflight' = inflight \cup {<<l, CurJob(l)>>}
  /\ loops' = [loops EXCEPT ![l].pc = AfterGenerateBegin]
  /\ trace' = [trace EXCEPT ![l] = Append(@, <<CurJob(l), "generate">>)]
  /\ svc' = [svc EXCEPT !.submitted = @ \cup {CurJob(l)}]
  /\ UNCHANGED <<jobs, scenes, clock, is_running, lock, callers,
                 budget, hist, seen>>

GenOutcomes ==
  {[ok |-> TRUE, res |-> <<r>>, err |-> NULL] : r \in GenResults}
    \cup {[ok |-> FALSE, res |-> None, err |-> ProviderError]}

\* ... and returns
GenerateEnd(l, out) ==
  /\ loops[l].pc = "gen_wait"
  /\ <<l, CurJob(l)>> \in inflight
  /\ inflight' = inflight \ {<<l, CurJob(l)>>}
  /\ loops' = IF out.ok
                THEN [loops EXCEPT ![l].pc = "done_status", ![l].res = out.res]
                ELSE Raise(l, out.err)
  /\ UNCHANGED <<svc, jobs, scenes, clock, is_running, lock, callers,
                 budget, hist, seen, trace>>

\* process_job, mark completed: the status UPDATE
DoneStatus(l, ok) ==
  /\ loops[l].pc = "done_status"
  /\ ok \/ budget.faults > 0
  /\ IF ok
       THEN /\ jobs' = StmtStatus(jobs, CurJob(l), "completed", clock)
            /\ loops' = [loops EXCEPT ![l].pc = "done_result"]
            /\ budget' = budget
       ELSE /\ jobs' = jobs
            /\ loops' = Raise(l, StoreError)
            /\ budget' = Spend
  /\ hist' = Record(hist, jobs')
  /\ UNCHANGED <<svc, scenes, clock, is_running, lock, callers, inflight, seen, trace>>

\* process_job, mark completed: the result UPDATE
DoneResult(l, ok) ==
  /\ loops[l].pc = "done_result"
  /\ ok \/ budget.faults > 0
  /\ IF ok
       THEN /\ jobs' = StmtResult(jobs, CurJob(l), Serialize(loops[l].res[1]))
            /\ loops' = [loops EXCEPT ![l].pc = "done_get"]
            /\ budget' = budget
       ELSE /\ jobs' = jobs
            /\ loops' = Raise(l, StoreError)
            /\ budget' = Spend
  /\ UNCHANGED <<svc, scenes, clock, is_running, lock, callers, inflight,
                 hist, seen, trace>>

\* process_job, mark completed: the closing Self::get
DoneGet(l, ok) ==
  /\ loops[l].pc = "done_get"
  /\ ok \/ budget.faults > 0
  /\ IF ok
       THEN /\ loops' = IF Live(jobs, CurJob(l))
                          THEN [loops EXCEPT ![l].pc = "thumb"]
                          ELSE Raise(l, JobNotFound)
            /\ trace' = IF Live(jobs, CurJob(l))
                          THEN [trace EXCEPT ![l] = Append(@, <<CurJob(l), "completed">>)]
                          ELSE trace
            /\ budget' = budget
       ELSE /\ loops' = Raise(l, StoreError)
            /\ trace' = trace
            /\ budget' = Spend
  /\ UNCHANGED <<svc, jobs, scenes, clock, is_running, lock, callers, inflight,
                 hist, seen>>

\* (mutant: the payload is preferred to the url)
ThumbnailDataFirst(r) == IF r.output_data # NULL THEN r.output_data ELSE r.output_url

\* result.output_url.or(result.output_data)
ThumbnailOf(r) == IF r.output_url # NULL THEN r.output_url ELSE r.output_data

\* SceneOps::update(scene_id, thumbnail)
StmtThumbnail(sc, sid, t) == IF sid \in DOMAIN sc THEN [sc EXCEPT ![sid] = t] ELSE sc

\* process_job: the scene thumbnail, then Ok(())
Thumb(l, ok) ==
  /\ loops[l].pc = "thumb"
  /\ LET job == jobs[CurJob(l)]
         t == ThumbnailOf(loops[l].res[1])
         due == job.scene_id # NoScene /\ t # NULL
     IN /\ ok \/ (due /\ budget.faults > 0)
        /\ scenes' = IF due /\ ok THEN StmtThumbnail(scenes, job.scene_id, t) ELSE scenes
        /\ budget' = IF ok THEN budget ELSE Spend
  /\ loops' = [loops EXCEPT ![l].pc = "iter"]
  /\ UNCHANGED <<svc, jobs, clock, is_running, lock, callers, inflight,
                 hist, seen, trace>>

\* process_pending_jobs, mark failed: the status UPDATE (its Err is dropped)
FailStatus(l, ok) ==
  /\ loops[l].pc = "fail_status"
  /\ ok \/ budget.faults > 0
  /\ IF ok
       THEN /\ jobs' = StmtStatus(jobs, CurJob(l), "failed", clock)
            /\ loops' = [loops EXCEPT ![l].pc = "fail_error"]
            /\ budget' = budget
       ELSE /\ jobs' = jobs
            /\ loops' = [loops EXCEPT ![l].pc = AfterJobError, ![l].handled = "dropped"]
            /\ budget' = Spend
  /\ hist' = Record(hist, jobs')
  /\ trace' = [trace EXCEPT ![l] = Append(@, <<CurJob(l), "fail_write">>)]
  /\ UNCHANGED <<svc, scenes, clock, is_running, lock, callers, inflight, seen>>

\* process_pending_jobs, mark failed: the error UPDATE (its Err is dropped)
FailError(l, ok) ==
  /\ loops[l].pc = "fail_error"
  /\ ok \/ budget.faults > 0
  /\ IF ok
       THEN /\ jobs' = StmtError(jobs, CurJob(l), loops[l].err)
            /\ loops' = [loops EXCEPT ![l].pc = AfterJobError, ![l].handled = "written"]
            /\ budget' = budget
       ELSE /\ jobs' = jobs
            /\ loops' = [loops EXCEPT ![l].pc = AfterJobError, ![l].handled = "dropped"]
            /\ budget' = Spend
  /\ UNCHANGED <<svc, scenes, clock, is_running, lock, callers, inflight,
                 hist, seen, trace>>

(***************************** output normalization ************************)
\* what a provider can put into output_data: the text, as GenerationService
\* reads it, is a sequence of characters of four kinds: "A" a group of the
\* base64 alphabet, "," a comma, " " whitespace, "!" any other character
TextOf(d) ==
  CASE d = "" -> <<>>
    [] d = "A" -> <<"A">>
    [] d = "AA" -> <<"A", "A">>
    [] d = "A A" -> <<"A", " ", "A">>
    [] d = " " -> <<" ">>
    [] d = "!" -> <<"!">>
    [] d = "A!" -> <<"A", "!">>
    [] d = "!,A" -> <<"!", ",", "A">>
    [] d = "!," -> <<"!", ",">>
    [] d = "A,!" -> <<"A", ",", "!">>
    [] d = "A,A,A" -> <<"A", ",", "A", ",", "A">>

DataTexts == {"", "A", "AA", "A A", " ", "!", "A!", "!,A", "!,", "A,!", "A,A,A"}

\* base64_data.find(',') and the slice after it
AfterComma(t) ==
  IF \E i \in 1..Len(t) : t[i] = ","
    THEN LET k == CHOOSE i \in 1..Len(t) :
                    t[i] = "," /\ \A j \in 1..(i - 1) : t[j] # ","
         IN SubSeq(t, k + 1, Len(t))
    ELSE t

\* .chars().filter(|c| !c.is_whitespace())
StripWhitespace(t) == SelectSeq(t, LAMBDA c : c # " ")

\* general_purpose::STANDARD.decode: the bytes, or an error
Base64Decode(t) ==
  IF \A i \in 1..Len(t) : t[i] = "A"
    THEN [ok |-> TRUE, bytes |-> [i \in 1..Len(t) |-> "byte"]]
    ELSE [ok |-> FALSE, bytes |-> <<>>]

\* what the machine answers to save_base64_to_file
SaveEnvs == {"ok", "no_home", "mkdir_error", "write_error"}

\* images_dir.join(format!("gen_{}.png", uuid)): the n-th name drawn
FilePath(n) ==
  CASE n = 1 -> "Pictures/Promptcraft/gen_1.png"
    [] n = 2 -> "Pictures/Promptcraft/gen_2.png"
    [] n = 3 -> "Pictures/Promptcraft/gen_3.png"
    [] OTHER -> "Pictures/Promptcraft/gen_n.png"

\* format!("asset://localhost/{}", file_path_str)
AssetUrl(path) ==
  CASE path = "Pictures/Promptcraft/gen_1.png" -> "asset://localhost/Pictures/Promptcraft/gen_1.png"
    [] path = "Pictures/Promptcraft/gen_2.png" -> "asset://localhost/Pictures/Promptcraft/gen_2.png"
    [] path = "Pictures/Promptcraft/gen_3.png" -> "asset://localhost/Pictures/Promptcraft/gen_3.png"
    [] OTHER -> "asset://localhost/Pictures/Promptcraft/gen_n.png"

\* save_base64_to_file: Ok(path) and the file written, or Err
SaveBase64ToFile(d, env, files) ==
  LET dec == Base64Decode(StripWhitespace(AfterComma(TextOf(d))))
  IN IF dec.ok /\ env = "ok"
       THEN [ok |-> TRUE, path |-> FilePath(Len(files) + 1),
             files |-> Append(files, dec.bytes)]
       ELSE [ok |-> FALSE, path |-> NULL, files |-> files]

\* (mutant: the provider's output_url is kept when the file is written)
NormalizeKeepUrl(r, env, files) ==
  LET saved == SaveBase64ToFile(r.output_data, env, files)
  IN IF r.output_data # NULL /\ r.output_data # "" /\ saved.ok
       THEN [res |-> [output_url |-> IF r.output_url # NULL THEN r.output_url
                                     ELSE AssetUrl(saved.path),
                      output_data |-> NULL, file_path |-> saved.path],
             files |-> saved.files]
       ELSE [res |-> r, files |-> files]

\* (mutant: a failed save drops the payload)
NormalizeDropData(r, env, files) ==
  LET saved == SaveBase64ToFile(r.output_data, env, files)
  IN IF r.output_data # NULL /\ r.output_data # "" /\ saved.ok
       THEN [res |-> [output_url |-> AssetUrl(saved.path), output_data |-> NULL,
                      file_path |-> saved.path],
             files |-> saved.files]
       ELSE [res |-> [r EXCEPT !.output_data = NULL], files |-> files]

\* GenerationService::generate after the provider has returned Ok(result)
Normalize(r, env, files) ==
  IF r.output_data # NULL /\ r.output_data # ""
    THEN LET saved == SaveBase64ToFile(r.output_data, env, files)
         IN IF saved.ok
              THEN [res |-> [output_url |-> AssetUrl(saved.path), output_data |-> NULL,
                             file_path |-> saved.path],
                    files |-> saved.files]
              ELSE [res |-> r, files |-> files]
    ELSE [res |-> r, files |-> files]

(***************************** providers ***********************************)
\* the model names a provider's generate matches on
ImageModels(p) ==
  CASE p = "openai" -> {"gpt-image-1", "gpt-image-1-mini", "dall-e-3", "dall-e-2"}
    [] p = "google" -> {"gemini-2.5-flash-image", "gemini-3-pro-image-preview"}
    [] p = "grok" -> {"grok-2-image", "grok-2-image-1212", "grok-image", "aurora",
                      "grok-1", "grok", "flux"}
    [] OTHER -> {}

VideoModels(p) ==
  CASE p = "openai" -> {"sora-2", "sora-2-pro", "sora"}
    [] p = "google" -> {"veo", "veo-2", "veo-2.0-generate-exp", "veo-3", "veo-3.1",
                        "veo-3.1-generate-preview"}
    [] OTHER -> {}

\* request.model as the callers give it: a name of each kind, the processor's
\* fallback "default" and a name no provider lists
RequestModels ==
  {"gpt-image-1", "sora-2", "gemini-2.5-flash-image", "veo-3", "grok-2-image",
   "default", "claude-x"}

\* GenerationProvider::generate of each provider: where the request goes
Route(p, m) ==
  CASE p = "midjourney" -> "stub"
    [] p = "anthropic" -> "text"
    [] p \in {"a1111", "comfyui", "invokeai"} -> "image"
    [] m \in ImageModels(p) -> "image"
    [] m \in VideoModels(p) -> "video"
    [] OTHER -> "unsupported"

\* providers whose generate_image reads the checkpoint from parameters.model
NeedsCheckpoint(p) == p \in {"comfyui", "invokeai"}

\* providers that poll after the submission
Polls(p, route) ==
  \/ p \in {"openai", "google"} /\ route = "video"
  \/ p = "comfyui"

NoError == [kind |-> "none", about |-> NULL]
NotConfigured(p) == [kind |-> "not_configured", about |-> p]
UnsupportedModel(m) == [kind |-> "unsupported_model", about |-> m]
ComingSoon == [kind |-> "coming_soon", about |-> NULL]
ModelRequired == [kind |-> "model_required", about |-> NULL]
HttpError == [kind |-> "http", about |-> NULL]
BadResponse == [kind |-> "bad_response", about |-> NULL]
TimedOutError == [kind |-> "timed_out", about |-> NULL]
GenerationFailed(msg) == [kind |-> "generation_failed", about |-> msg]

\* the message of an error object in a poll response, and the fallback text
EmbeddedMessage == "quota exceeded"
DefaultMessage == "Video generation failed"

\* the results a provider builds from a successful response
UrlResult == [output_url |-> "url", output_data |-> NULL, file_path |-> NULL]
NoUrlResult == [output_url |-> NULL, output_data |-> NULL, file_path |-> NULL]

ProviderResults(p, route) ==
  IF Polls(p, route) THEN {UrlResult}
  ELSE IF p \in {"anthropic", "a1111", "google"}
    THEN {[output_url |-> NULL, output_data |-> d, file_path |-> NULL] : d \in DataTexts}
  ELSE {[output_url |-> u, output_data |-> d, file_path |-> NULL] :
          u \in {NULL, "url"}, d \in DataTexts \cup {NULL}}

(***************************** pollers *************************************)
Min(a, b) == IF a < b THEN a ELSE b

FirstDelay(p) ==
  CASE p = "google" -> GoogleFirstDelay
    [] p = "openai" -> OpenAIFirstDelay
    [] OTHER -> ComfyDelay

\* (mutant: the ceiling is tested after one poll more)
MaxAttemptsPlusOne(p) == GoogleMaxAttempts + 1

MaxAttempts(p) ==
  CASE p = "google" -> GoogleMaxAttempts
    [] p = "openai" -> OpenAIMaxAttempts
    [] OTHER -> ComfyMaxAttempts

\* what a status poll can be answered with
PollResponses(p) ==
  CASE p = "google" -> {"transport_error", "http_error", "not_done", "done_error",
                        "done_error_nomsg", "done_url", "done_nourl"}
    [] p = "openai" -> {"transport_error", "http_error", "processing", "unknown",
                        "failed_text", "failed_object", "completed_url", "completed_nourl"}
    [] OTHER -> {"transport_error", "http_error", "bad_json", "no_outputs", "outputs"}

\* the responses after which the poller polls again
NonTerminal(p) ==
  CASE p = "google" -> {"not_done"}
    [] p = "openai" -> {"processing", "unknown"}
    [] OTHER -> {"http_error", "no_outputs"}

\* how one poll ends the invocation: Done with a result, Failed with an error
PollVerdict(p, resp) ==
  IF resp \in NonTerminal(p) THEN [ending |-> "none", err |-> NoError, res |-> None]
  ELSE IF resp \in {"done_url", "completed_url", "outputs"}
    THEN [ending |-> "Done", err |-> NoError, res |-> <<UrlResult>>]
  ELSE IF resp \in {"done_nourl", "completed_nourl"}
    THEN [ending |-> "Done", err |-> NoError, res |-> <<NoUrlResult>>]
  ELSE IF resp \in {"done_error", "failed_text"}
    THEN [ending |-> "Failed", err |-> GenerationFailed(EmbeddedMessage), res |-> None]
  ELSE IF resp \in {"done_error_nomsg", "failed_object"}
    THEN [ending |-> "Failed", err |-> GenerationFailed(DefaultMessage), res |-> None]
  ELSE IF resp = "bad_json"
    THEN [ending |-> "Failed", err |-> BadResponse, res |-> None]
  ELSE [ending |-> "Failed", err |-> HttpError, res |-> None]

\* the delay before the next poll
NextDelay(p, delay, resp) ==
  CASE p = "google" -> Min(delay + GoogleDelayStep, GoogleMaxDelay)
    [] p = "openai" -> IF resp = "processing"
                         THEN Min(delay * OpenAIDelayFactor, OpenAIMaxDelay)
                         ELSE delay
    [] OTHER -> delay

(***************************** a generate call ******************************)
\* the call of GenerationService::generate under way
Call == svc.call[1]

Calling == svc.call # None

NewCall(p, cfg, m, ck) ==
  [provider |-> p, configured |-> cfg, model |-> m, checkpoint |-> ck,
   phase |-> "route", route |-> "none", http |-> 0, err |-> NoError, raw |-> None,
   res |-> None, attempt |-> 0, delay |-> 0, total |-> 0, ending |-> "none",
   unknown |-> 0, last |-> "none", polled |-> 0, env |-> "none"]

JobSide == <<jobs, scenes, clock, is_running, lock, callers, loops, inflight, hist, seen, trace>>

\* the provider returns Err(e)
Fail(c, e) == [c EXCEPT !.phase = "returned", !.err = e]

\* service.generate(provider, request) reaches the provider's generate: the
\* provider is configured or not, parameters.model is given or not
CallBegin(p, cfg, m, ck) ==
  /\ ~Calling
  /\ budget.calls > 0
  /\ ck \/ NeedsCheckpoint(p)
  /\ svc' = [svc EXCEPT !.call = <<NewCall(p, cfg, m, ck)>>]
  /\ budget' = [budget EXCEPT !.calls = @ - 1]
  /\ UNCHANGED JobSide

\* the match on request.model
CallRoute ==
  /\ Calling /\ Call.phase = "route"
  /\ LET r == Route(Call.provider, Call.model)
     IN svc' = [svc EXCEPT !.call[1] =
                  IF r = "unsupported" THEN Fail(Call, UnsupportedModel(Call.model))
                  ELSE IF r = "stub" THEN Fail(Call, ComingSoon)
                  ELSE [Call EXCEPT !.phase = "config", !.route = r]]
  /\ UNCHANGED <<JobSide, budget>>

\* (mutant: the configuration is not looked at)
ConfigNeverMissing(c) == FALSE

\* self.config.as_ref() is None
ConfigMissing(c) == ~c.configured

\* self.config.as_ref().ok_or_else(..)?, then the parameters
CallConfig ==
  /\ Calling /\ Call.phase = "config"
  /\ svc' = [svc EXCEPT !.call[1] =
                IF ConfigMissing(Call) THEN Fail(Call, NotConfigured(Call.provider))
                ELSE IF NeedsCheckpoint(Call.provider) /\ ~Call.checkpoint
                  THEN Fail(Call, ModelRequired)
                ELSE [Call EXCEPT !.phase = "send"]]
  /\ UNCHANGED <<JobSide, budget>>

SendResponses == {"transport_error", "http_error", "bad_body", "ok"}

\* the POST of the generation request and the reading of its response
CallSend(resp, r) ==
  /\ Calling /\ Call.phase = "send"
  /\ r \in ProviderResults(Call.provider, Call.route)
  /\ resp # "ok" => r = UrlResult
  /\ LET c == [Call EXCEPT !.http = @ + 1]
     IN svc' = [svc EXCEPT !.call[1] =
                  IF resp \in {"transport_error", "http_error"} THEN Fail(c, HttpError)
                  ELSE IF resp = "bad_body" THEN Fail(c, BadResponse)
                  ELSE IF Polls(c.provider, c.route)
                    THEN [c EXCEPT !.phase = "poll", !.delay = FirstDelay(c.provider)]
                  ELSE [c EXCEPT !.phase = "returned", !.raw = <<r>>]]
  /\ UNCHANGED <<JobSide, budget>>

\* the head of the polling loop: the attempt ceiling, then the sleep
PollTop ==
  /\ Calling /\ Call.phase = "poll"
  /\ svc' = [svc EXCEPT !.call[1] =
                IF Call.attempt >= MaxAttempts(Call.provider)
                  THEN [Fail(Call, TimedOutError) EXCEPT !.ending = "TimedOut"]
                  ELSE [Call EXCEPT !.phase = "poll_request", !.total = @ + Call.delay]]
  /\ UNCHANGED <<JobSide, budget>>

\* one status poll and what the poller makes of the response
PollRequest(resp) ==
  /\ Calling /\ Call.phase = "poll_request"
  /\ resp \in PollResponses(Call.provider)
  /\ resp = "unknown" => Call.unknown < MaxUnknown
  /\ LET v == PollVerdict(Call.provider, resp)
         c == [Call EXCEPT !.http = @ + 1, !.attempt = @ + 1, !.polled = @ + 1,
                           !.last = resp,
                           !.unknown = IF resp = "unknown" THEN @ + 1 ELSE @]
     IN svc' = [svc EXCEPT !.call[1] =
                  IF v.ending = "none"
                    THEN [c EXCEPT !.phase = "poll",
                                   !.delay = NextDelay(c.provider, @, resp)]
                  ELSE IF v.ending = "Done"
                    THEN [c EXCEPT !.phase = "returned", !.ending = "Done", !.raw = v.res]
                  ELSE [Fail(c, v.err) EXCEPT !.ending = "Failed"]]
  /\ UNCHANGED <<JobSide, budget>>

\* GenerationService::generate has the provider's answer: Err is passed on,
\* Ok(result) is normalized
ServiceReturn(env) ==
  /\ Calling /\ Call.phase = "returned"
  /\ IF Call.raw = None
       THEN /\ env = "ok"
            /\ svc' = [svc EXCEPT !.call[1].phase = "done"]
       ELSE LET n == Normalize(Call.raw[1], env, svc.files)
            IN svc' = [svc EXCEPT
                         !.files = n.files,
                         !.call = <<[Call EXCEPT !.phase = "done", !.res = <<n.res>>,
                                                 !.env = env]>>]
  /\ UNCHANGED <<JobSide, budget>>

\* call_ai: result.output_data.ok_or_else(|| "No text output received")
NoTextOutput == "No text output received"

CallAiReturn(res) ==
  IF res.output_data # NULL THEN [ok |-> TRUE, text |-> res.output_data]
  ELSE [ok |-> FALSE, text |-> NoTextOutput]

\* call_ai: the command has the answer of generate
CallAiEnd ==
  /\ Calling /\ Call.phase = "done"
  /\ inflight = {}
  /\ svc' = [svc EXCEPT !.call = None, !.readers = 0, !.resolved = None]
  /\ UNCHANGED <<JobSide, budget>>

\* process_job: the generate call of the loop returns what the service made
GenerateEndCall(l) ==
  /\ loops[l].pc = "gen_wait"
  /\ <<l, CurJob(l)>> \in inflight
  /\ Calling /\ Call.phase = "done"
  /\ inflight' = inflight \ {<<l, CurJob(l)>>}
  /\ loops' = IF Call.res # None
                THEN [loops EXCEPT ![l].pc = "done_status", ![l].res = Call.res]
                ELSE Raise(l, Call.err.kind)
  /\ svc' = [svc EXCEPT !.call = None, !.readers = 0, !.resolved = None]
  /\ UNCHANGED <<jobs, scenes, clock, is_running, lock, callers,
                 budget, hist, seen, trace>>

AllResults == UNION {ProviderResults(p, "image") \cup ProviderResults(p, "video") : p \in Providers}

AllPollResponses == UNION {PollResponses(p) : p \in Providers}

\* the providers GenerationService holds: the four of init_generation_service,
\* configured or not, and the local ones once configure_local_provider ran
Registered(p, cfg) ==
  \/ p \in {"anthropic", "openai", "google", "grok"}
  \/ p \in {"a1111", "comfyui", "invokeai"} /\ cfg

ProviderNotFound == "Provider not found"

\* process_job: generate reaches the provider the job names
ProcessorCall(p, cfg, m, ck) ==
  /\ inflight # {}
  /\ Registered(p, cfg)
  /\ CallBegin(p, cfg, m, ck)

\* process_job: the job names a provider the service does not hold
GenerateEndNotFound(l) ==
  /\ loops[l].pc = "gen_wait"
  /\ <<l, CurJob(l)>> \in inflight
  /\ ~Calling
  /\ inflight' = inflight \ {<<l, CurJob(l)>>}
  /\ loops' = Raise(l, ProviderNotFound)
  /\ UNCHANGED <<svc, jobs, scenes, clock, is_running, lock, callers,
                 budget, hist, seen, trace>>

CallStep ==
  \/ CallRoute \/ CallConfig \/ PollTop
  \/ \E resp \in SendResponses, r \in AllResults : CallSend(resp, r)
  \/ \E resp \in AllPollResponses : PollRequest(resp)
  \/ \E env \in SaveEnvs : ServiceReturn(env)

(***************************** the provider registry ***********************)
\* the names each configure function has an arm for
ApiKeyProviders == {"anthropic", "openai", "google", "grok"}
LocalProviders == {"a1111", "comfyui", "invokeai"}

\* api keys and endpoint urls the front end supplies
Credentials == {1, 2}

\* self.providers.remove(provider_name)
Remove(reg, name) == IF name \in DOMAIN reg THEN [reg EXCEPT ![name] = Absent] ELSE reg

\* an instance built by with_config: what its name() returns, the credential
\* or endpoint of its config
WithConfig(name, cred) == [name |-> name, cred |-> cred]

\* GenerationService::register_provider: HashMap::insert under provider.name()
RegisterProvider(reg, inst) == [reg EXCEPT ![inst.name] = Configured(inst.cred)]

\* (mutant: the registry is rebuilt from the start-up one)
ConfigureProviderReset(reg, name, key) ==
  IF name \in ApiKeyProviders
    THEN [ok |-> TRUE, reg |-> [StartupRegistry EXCEPT ![name] = Configured(key)]]
    ELSE [ok |-> FALSE, reg |-> Remove(reg, name)]

\* GenerationService::configure_provider: Ok(()) or Err, and the registry after
ConfigureProvider(reg, name, key) ==
  IF name \in ApiKeyProviders
    THEN [ok |-> TRUE, reg |-> RegisterProvider(Remove(reg, name), WithConfig(name, key))]
    ELSE [ok |-> FALSE, reg |-> Remove(reg, name)]

\* GenerationService::configure_local_provider
ConfigureLocalProvider(reg, name, url) ==
  IF name \in LocalProviders
    THEN [ok |-> TRUE, reg |-> RegisterProvider(Remove(reg, name), WithConfig(name, url))]
    ELSE [ok |-> FALSE, reg |-> Remove(reg, name)]

\* GenerationService::list_providers
ListProviders(reg) == {n \in DOMAIN reg : reg[n].present}

\* the provider names the front end passes: a key provider, a local one, one
\* that no configure function has an arm for
ConfigNames == {"openai", "comfyui", "midjourney"}

NotFound(p) == [kind |-> "not_found", about |-> p]

\* the command configure_provider or configure_local_provider is invoked and
\* awaits service.write()
ConfigureRequest(kind, name, cred) ==
  /\ svc.waiting = None
  /\ budget.cfgs > 0
  /\ svc' = [svc EXCEPT !.waiting = <<[kind |-> kind, name |-> name, cred |-> cred]>>,
                        !.outcome = "none"]
  /\ budget' = [budget EXCEPT !.cfgs = @ - 1]
  /\ UNCHANGED JobSide

\* (mutant: the writer does not wait for the readers)
WriteLockIgnored == TRUE

\* RwLock::write is granted: no read guard is alive
WriteLockFree == svc.readers = 0

\* the command holds the write guard, configures and returns
ConfigureApply ==
  /\ svc.waiting # None
  /\ WriteLockFree
  /\ LET w == svc.waiting[1]
         r == IF w.kind = "api" THEN ConfigureProvider(svc.registry, w.name, w.cred)
              ELSE ConfigureLocalProvider(svc.registry, w.name, w.cred)
     IN svc' = [svc EXCEPT !.registry = r.reg, !.waiting = None,
                           !.outcome = IF r.ok THEN "ok" ELSE "unknown_provider"]
  /\ UNCHANGED <<JobSide, budget>>

\* call_ai or process_job: service.read() is granted, generate resolves the
\* provider by name; the read guard lives until generate has returned
RegistryCall(p, m, ck) ==
  /\ ~Calling
  /\ svc.readers = 0 /\ svc.waiting = None
  /\ budget.calls > 0
  /\ ck \/ NeedsCheckpoint(p)
  /\ LET entry == svc.registry[p]
     IN svc' = [svc EXCEPT
                  !.readers = 1,
                  !.resolved = <<entry>>,
                  !.call = IF entry.present
                             THEN <<NewCall(p, entry.cred # 0, m, ck)>>
                             ELSE <<[NewCall(p, FALSE, m, ck) EXCEPT
                                       !.phase = "done", !.err = NotFound(p)]>>]
  /\ budget' = [budget EXCEPT !.calls = @ - 1]
  /\ UNCHANGED JobSide

\* the points where generate is suspended: an HTTP request or a sleep of the
\* poller is pending, or the media file is being written
SuspendedPhases == {"send", "poll", "poll_request", "returned"}

(***************************** generation/utils.rs *************************)
\* strings are sequences of characters
DataPrefix == <<"d", "a", "t", "a", ":">>
Base64Word == <<"b", "a", "s", "e", "6", "4">>
ImagePng == <<"i", "m", "a", "g", "e", "/", "p", "n", "g">>

\* the pieces the data URLs of the front end are put together from
Chunks == {DataPrefix, Base64Word, <<";">>, <<",">>, <<"p">>, <<"d", "a", "t">>}

RECURSIVE Flatten(_)
Flatten(cs) == IF cs = <<>> THEN <<>> ELSE Head(cs) \o Flatten(Tail(cs))

\* str::starts_with
StartsWith(t, pre) == Len(t) >= Len(pre) /\ SubSeq(t, 1, Len(pre)) = pre

\* str::find(char): the first position, 0 for None
Find(t, ch) ==
  IF \E i \in 1..Len(t) : t[i] = ch
    THEN CHOOSE i \in 1..Len(t) : t[i] = ch /\ \A j \in 1..(i - 1) : t[j] # ch
    ELSE 0

\* str::contains(&str)
Contains(t, sub) ==
  \E i \in 1..(Len(t) - Len(sub) + 1) : SubSeq(t, i, i + Len(sub) - 1) = sub

\* (mutant: strip_prefix, the prefix is taken off once)
StripPrefixOnce(t, pre) ==
  IF StartsWith(t, pre) THEN SubSeq(t, Len(pre) + 1, Len(t)) ELSE t

\* str::trim_start_matches: the prefix is taken off as often as it is there
RECURSIVE TrimStartMatches(_, _)
TrimStartMatches(t, pre) ==
  IF StartsWith(t, pre) THEN TrimStartMatches(SubSeq(t, Len(pre) + 1, Len(t)), pre)
  ELSE t

\* str::split(ch).next(): the text before the first ch, all of it without one
FirstSegment(t, ch) == IF Find(t, ch) = 0 THEN t ELSE SubSeq(t, 1, Find(t, ch) - 1)

NotDataUrl == "Invalid data URL: must start with 'data:'"
MissingComma == "Invalid data URL format: missing comma separator"
NotBase64 == "Data URL is not base64 encoded"

ExtractErr(e) == [ok |-> FALSE, mime |-> <<>>, data |-> <<>>, err |-> e]

\* extract_base64_from_data_url
ExtractBase64FromDataUrl(u) ==
  IF ~StartsWith(u, DataPrefix) THEN ExtractErr(NotDataUrl)
  ELSE IF Find(u, ",") = 0 THEN ExtractErr(MissingComma)
  ELSE LET metadata == SubSeq(u, 1, Find(u, ",") - 1)
           base64_data == SubSeq(u, Find(u, ",") + 1, Len(u))
           mime_part == TrimStartMatches(metadata, DataPrefix)
           mime_type == FirstSegment(mime_part, ";")
       IN IF ~Contains(metadata, Base64Word) THEN ExtractErr(NotBase64)
          ELSE [ok |-> TRUE, mime |-> mime_type, data |-> base64_data, err |-> NULL]

\* the function under way on an argument, and what it returned
Util == svc.util[1]

\* extract_base64_from_data_url(data_url) returns
Extract ==
  /\ svc.util # None
  /\ Util.fn = "extract" /\ Util.out = None
  /\ svc' = [svc EXCEPT !.util[1].out = <<ExtractBase64FromDataUrl(Util.input)>>]
  /\ UNCHANGED <<JobSide, budget>>

\* serde_json::Value as far as get_reference_image_params looks at it: a key
\* that is absent, null, a number (in hundredths) or a string
JAbsent == [t |-> "absent", n |-> 0, s |-> ""]
JNull == [t |-> "null", n |-> 0, s |-> ""]
JNum(n) == [t |-> "number", n |-> n, s |-> ""]
JStr(s) == [t |-> "string", n |-> 0, s |-> s]

\* the values the front end puts under a key of reference_image
FieldValues == {JAbsent, JNull, JNum(85), JStr("fill")}

\* the f32 nearest to n hundredths (`as f32`, and the f32 literals)
AsF32(n) == [f32 |-> n]

DefaultStrength == 75
DefaultDenoising == 70
DefaultControlnetStrength == 100
DefaultResizeMode == "crop"

\* reference_image: no such key, a value that is no object, or an object
RefImages ==
  {[kind |-> "absent"], [kind |-> "not_object"]} \cup
  [kind : {"object"}, strength : FieldValues, denoisingStrength : FieldValues,
   resizeMode : FieldValues, controlnetType : FieldValues,
   controlnetStrength : FieldValues]

\* v.as_f64().unwrap_or(d) as f32
F64Or(v, d) == IF v.t = "number" THEN AsF32(v.n) ELSE AsF32(d)

\* v.as_str().unwrap_or(d).to_string()
StrOr(v, d) == IF v.t = "string" THEN v.s ELSE d

\* v.as_str().map(|s| s.to_string())
StrOpt(v) == IF v.t = "string" THEN <<v.s>> ELSE None

AllDefaults ==
  [strength |-> AsF32(DefaultStrength), denoising |-> AsF32(DefaultDenoising),
   resize_mode |-> DefaultResizeMode, controlnet_type |-> None,
   controlnet_strength |-> AsF32(DefaultControlnetStrength)]

\* (mutant: the defaults are taken as soon as one key is not usable)
GetReferenceImageParamsAllOrNothing(r) ==
  IF /\ r.kind = "object"
     /\ r.strength.t = "number" /\ r.denoisingStrength.t = "number"
     /\ r.resizeMode.t = "string" /\ r.controlnetType.t = "string"
     /\ r.controlnetStrength.t = "number"
    THEN [strength |-> AsF32(r.strength.n), denoising |-> AsF32(r.denoisingStrength.n),
          resize_mode |-> r.resizeMode.s, controlnet_type |-> <<r.controlnetType.s>>,
          controlnet_strength |-> AsF32(r.controlnetStrength.n)]
    ELSE AllDefaults

\* get_reference_image_params, r being parameters.get("reference_image"); get
\* on a value that is no object is None for every key
GetReferenceImageParams(r) ==
  IF r.kind = "absent" THEN AllDefaults
  ELSE IF r.kind = "not_object" THEN
    [strength |-> F64Or(JAbsent, DefaultStrength),
     denoising |-> F64Or(JAbsent, DefaultDenoising),
     resize_mode |-> StrOr(JAbsent, DefaultResizeMode),
     controlnet_type |-> StrOpt(JAbsent),
     controlnet_strength |-> F64Or(JAbsent, DefaultControlnetStrength)]
  ELSE
    [strength |-> F64Or(r.strength, DefaultStrength),
     denoising |-> F64Or(r.denoisingStrength, DefaultDenoising),
     resize_mode |-> StrOr(r.resizeMode, DefaultResizeMode),
     controlnet_type |-> StrOpt(r.controlnetType),
     controlnet_strength |-> F64Or(r.controlnetStrength, DefaultControlnetStrength)]

\* get_reference_image_params(parameters) returns
GetParams ==
  /\ svc.util # None
  /\ Util.fn = "params" /\ Util.out = None
  /\ svc' = [svc EXCEPT !.util[1].out = <<GetReferenceImageParams(Util.input)>>]
  /\ UNCHANGED <<JobSide, budget>>

(***************************** specifications ******************************)
LoopStep(l, ok) ==
  \/ Fetch(l, ok) \/ RunStatus(l, ok) \/ RunGet(l, ok)
  \/ DoneStatus(l, ok) \/ DoneResult(l, ok) \/ DoneGet(l, ok) \/ Thumb(l, ok)
  \/ FailStatus(l, ok) \/ FailError(l, ok)

LoopLocal(l) ==
  \/ LoopCheck(l) \/ Iter(l) \/ Sleep(l) \/ Parse(l) \/ GenerateBegin(l)
  \/ \E out \in GenOutcomes : GenerateEnd(l, out)

StartStep(c) == StartLock(c) \/ StartCheck(c) \/ StartSet(c) \/ StartSpawn(c)

\* the documents create_job is given in Spec and SpecProcessor
SpecDocs == {<<ValidData, 1>>, <<NoPrompt, NoScene>>}

\* Spec: the command layer, the processor and the store
Next ==
  \/ Tick
  \/ \E d \in SpecDocs : CreateJob(d[1], d[2])
  \/ SubmitGeneration
  \/ \E id \in DOMAIN jobs, i \in UpdateInputs, f \in 0..3 : UpdateJobCmd(id, i, f)
  \/ \E id \in DOMAIN jobs : DeleteJob(id)
  \/ \E c \in Callers : StartStep(c)
  \/ \E l \in LoopIds : LoopLocal(l)
  \/ \E l \in LoopIds, ok \in BOOLEAN : LoopStep(l, ok)

Spec == Init /\ [][Next]_vars

\* SpecProcessor: jobs are submitted and the processor runs over a store whose
\* statements may fail; nothing else writes the jobs table
InitProcessor ==
  InitWith([NoBudget EXCEPT !.creates = MaxJobs, !.faults = MaxFaults, !.starts = 1])

NextProcessor ==
  \/ Tick
  \/ \E d \in SpecDocs : CreateJob(d[1], d[2])
  \/ SubmitGeneration
  \/ \E c \in Callers : StartStep(c)
  \/ \E l \in LoopIds : LoopLocal(l)
  \/ \E l \in LoopIds, ok \in BOOLEAN : LoopStep(l, ok)

SpecProcessor == InitProcessor /\ [][NextProcessor]_vars

\* SpecNominal: jobs with any document are submitted and the processor runs
\* over a store that answers every statement
InitNominal == InitWith([NoBudget EXCEPT !.creates = MaxJobs, !.starts = 1])

NextNominal ==
  \/ Tick
  \/ \E d \in DataDocs : CreateJob(d, NoScene)
  \/ \E c \in Callers : StartStep(c)
  \/ \E l \in LoopIds : LoopLocal(l)
  \/ \E l \in LoopIds : LoopStep(l, TRUE)

SpecNominal == InitNominal /\ [][NextNominal]_vars

\* SpecStart: callers of start and stop race; the store is empty
InitStart == InitWith([NoBudget EXCEPT !.starts = MaxStarts, !.stops = MaxStops])

NextStart ==
  \/ \E c \in Callers : StartStep(c)
  \/ Stop
  \/ \E l \in LoopIds : LoopCheck(l) \/ Fetch(l, TRUE) \/ Iter(l) \/ Sleep(l)

SpecStart == InitStart /\ [][NextStart]_vars

\* SpecProcessorLive: SpecProcessor with the scheduling of the loop: the sleep
\* ends and the read lock on is_running is granted
SpecProcessorLive ==
  /\ InitProcessor
  /\ [][NextProcessor]_vars
  /\ \A l \in LoopIds : WF_vars(Sleep(l)) /\ WF_vars(LoopCheck(l))

\* SpecProcessorFair: SpecProcessor where the application starts the processor
\* and the spawned task is always run: every statement sent to the store is
\* answered (with a result or an error) and every provider call returns
SpecProcessorFair ==
  /\ InitProcessor
  /\ [][NextProcessor]_vars
  /\ \A c \in Callers : WF_vars(StartStep(c))
  /\ \A l \in LoopIds : WF_vars(LoopLocal(l) \/ \E ok \in BOOLEAN : LoopStep(l, ok))

\* SpecBatch: the loop wakes up over NBatch pending jobs that were stored while
\* it slept; created_at ascends with the row, descends, or comes in equal pairs
BatchStamps ==
  { [i \in 1..NBatch |-> i],
    [i \in 1..NBatch |-> NBatch + 1 - i],
    [i \in 1..NBatch |-> (i \div 2) + 1] }

BatchDoc(i) == IF i = NBatch THEN ValidData ELSE NoPrompt

InitBatch ==
  /\ \E st \in BatchStamps :
       jobs = [i \in 1..NBatch |-> NewJob(BatchDoc(i), NoScene, st[i])]
  /\ scenes = [s \in {1} |-> NULL]
  /\ clock = NBatch + 1
  /\ is_running = TRUE
  /\ lock = 0
  /\ callers = [c \in Callers |-> "idle"]
  /\ loops = [l \in LoopIds |-> IF l = 1 THEN [IdleLoop EXCEPT !.pc = "check"] ELSE IdleLoop]
  /\ inflight = {}
  /\ budget = NoBudget
  /\ hist = [i \in 1..NBatch |-> <<"pending">>]
  /\ seen = [l \in LoopIds |-> {}]
  /\ trace = [l \in LoopIds |-> <<>>]
  /\ svc = IdleSvc

NextBatch ==
  \/ \E l \in LoopIds : LoopLocal(l)
  \/ \E l \in LoopIds : LoopStep(l, TRUE)

SpecBatch == InitBatch /\ [][NextBatch]_vars

\* SpecProvider: call_ai calls generate, for every provider, configured or
\* not, and every model name; the network answers anything
InitProvider == InitWith([NoBudget EXCEPT !.calls = MaxCalls])

NextProvider ==
  \/ \E p \in Providers, cfg \in BOOLEAN, m \in RequestModels, ck \in BOOLEAN :
       CallBegin(p, cfg, m, ck)
  \/ CallStep
  \/ CallAiEnd

SpecProvider == InitProvider /\ [][NextProvider]_vars

\* SpecProviderLive: SpecProvider with the scheduling of the call: the call
\* under way goes on (every sleep ends and every request is answered)
SpecProviderLive ==
  /\ InitProvider
  /\ [][NextProvider]_vars
  /\ WF_vars(CallStep)

\* SpecGenerate: one job is submitted and the processor drives a generate call
\* for it; the store answers every statement but the thumbnail write
InitGenerate ==
  InitWith([NoBudget EXCEPT !.creates = 1, !.starts = 1, !.calls = 1, !.faults = 1])

NextGenerate ==
  \/ \E d \in SpecDocs : CreateJob(d[1], d[2])
  \/ SubmitGeneration
  \/ \E c \in Callers : StartStep(c)
  \/ \E l \in LoopIds : LoopCheck(l) \/ Iter(l) \/ Sleep(l) \/ Parse(l) \/ GenerateBegin(l)
  \/ \E l \in LoopIds : LoopStep(l, TRUE)
  \/ \E l \in LoopIds : Thumb(l, FALSE)
  \/ \E p \in Providers, cfg \in BOOLEAN, m \in RequestModels, ck \in BOOLEAN :
       ProcessorCall(p, cfg, m, ck)
  \/ CallStep
  \/ \E l \in LoopIds : GenerateEndCall(l) \/ GenerateEndNotFound(l)

SpecGenerate == InitGenerate /\ [][NextGenerate]_vars

\* SpecRegistry: configure commands and one generate call on the registry of
\* start-up; the remote side answers each poll with not-yet, a url or an error
RegistryModels == {"sora-2", "default"}
RegistryPolls ==
  {"processing", "no_outputs", "transport_error", "completed_url", "outputs"}
RegistryResults ==
  {UrlResult, [output_url |-> NULL, output_data |-> "A", file_path |-> NULL]}

InitRegistry == InitWith([NoBudget EXCEPT !.calls = 1, !.cfgs = MaxCfgs])

NextRegistry ==
  \/ \E kind \in {"api", "local"}, name \in ConfigNames, cred \in Credentials :
       ConfigureRequest(kind, name, cred)
  \/ ConfigureApply
  \/ \E p \in ConfigNames, m \in RegistryModels, ck \in BOOLEAN : RegistryCall(p, m, ck)
  \/ CallRoute
  \/ CallConfig
  \/ \E resp \in SendResponses, r \in RegistryResults : CallSend(resp, r)
  \/ PollTop
  \/ \E resp \in RegistryPolls : PollRequest(resp)
  \/ \E env \in {"ok", "write_error"} : ServiceReturn(env)
  \/ CallAiEnd

SpecRegistry == InitRegistry /\ [][NextRegistry]_vars

\* SpecTwoLoops: the processor is started, stopped and started again, so that
\* the loop of the first start can still run beside the loop of the second;
\* one job is submitted and the store answers every statement
InitTwoLoops ==
  InitWith([NoBudget EXCEPT !.creates = 1, !.starts = 2, !.stops = MaxStops])

NextTwoLoops ==
  \/ \E d \in SpecDocs : CreateJob(d[1], d[2])
  \/ SubmitGeneration
  \/ \E c \in Callers : StartStep(c)
  \/ Stop
  \/ \E l \in LoopIds : LoopLocal(l)
  \/ \E l \in LoopIds : LoopStep(l, TRUE)

SpecTwoLoops == InitTwoLoops /\ [][NextTwoLoops]_vars

\* SpecStopLive: SpecTwoLoops with the scheduling of the runtime: a spawned
\* task is run, its sleep ends, the store and the provider answer, and a start
\* call that holds the write lock goes on to its end
SpecStopLive ==
  /\ InitTwoLoops
  /\ [][NextTwoLoops]_vars
  /\ \A l \in LoopIds : WF_vars(LoopLocal(l) \/ LoopStep(l, TRUE))
  /\ \A c \in Callers : WF_vars(StartCheck(c) \/ StartSet(c) \/ StartSpawn(c))

\* SpecDataUrl: extract_base64_from_data_url is called on a string made of up
\* to MaxChunks pieces
ChunkSeqs == UNION {[1..n -> Chunks] : n \in 0..MaxChunks}

InitDataUrl ==
  /\ InitJobSide(NoBudget)
  /\ \E cs \in ChunkSeqs :
       svc = [IdleSvc EXCEPT !.util = <<[fn |-> "extract", input |-> Flatten(cs),
                                         out |-> None]>>]

NextDataUrl == Extract

SpecDataUrl == InitDataUrl /\ [][NextDataUrl]_vars

\* SpecRefParams: get_reference_image_params is called on a parameter bag
InitRefParams ==
  /\ InitJobSide(NoBudget)
  /\ \E r \in RefImages :
       svc = [IdleSvc EXCEPT !.util = <<[fn |-> "params", input |-> r, out |-> None]>>]

NextRefParams == GetParams

SpecRefParams == InitRefParams /\ [][NextRefParams]_vars

(***************************** claims **************************************)
AllowedChanges ==
  {<<"pending", "running">>, <<"running", "completed">>, <<"running", "failed">>}

\* C1: over the processor's cycles a job's status changes only pending->running,
\* running->completed or running->failed, and a completed or failed job keeps its
\* status, also when a store statement fails inside an update.
C1_StatusMachine ==
  [][\A id \in DOMAIN jobs :
       /\ jobs'[id].status # jobs[id].status
            => <<jobs[id].status, jobs'[id].status>> \in AllowedChanges
       /\ jobs[id].status \in {"completed", "failed"}
            => jobs'[id].status = jobs[id].status]_vars

\* C2: while no stop has been called, concurrent start calls spawn one loop:
\* the loops spawned plus the callers about to spawn are one once the flag is
\* set and none before, and a start that finds the flag set spawns nothing.
C2_OneLoopSpawned ==
  budget.stopped = 0 =>
    /\ Cardinality(SpawnedLoops) + Cardinality({c \in Callers : callers[c] = "spawn"})
         = (IF is_running THEN 1 ELSE 0)
    /\ Cardinality({c \in Callers : callers[c] = "set"}) <= 1
    /\ (is_running => \A c \in Callers : callers[c] # "set")

\* two start calls have returned, no stop was called, and one loop runs
C2_Witness ==
  /\ budget.stopped = 0
  /\ budget.starts <= MaxStarts - 2
  /\ \A c \in Callers : callers[c] = "idle"
  /\ Cardinality(SpawnedLoops) = 1

\* C3: once a job's started_at is set no update changes it.
C3_StartedAtOnce ==
  [][\A id \in DOMAIN jobs :
       jobs[id].started_at # NoTime => jobs'[id].started_at = jobs[id].started_at]_vars

\* a job marked running a second time, later than the first
C3_Witness ==
  \E id \in DOMAIN jobs :
    /\ Len(hist[id]) >= 4
    /\ hist[id][2] = "running"
    /\ hist[id][Len(hist[id])] = "running"
    /\ jobs[id].started_at # NoTime
    /\ jobs[id].started_at < clock

\* C4: a pending job has completed_at, result and error unset.
C4_PendingFieldsUnset ==
  \A id \in DOMAIN jobs :
    (jobs[id].exists /\ jobs[id].status = "pending") =>
      /\ jobs[id].completed_at = NoTime
      /\ jobs[id].result = None
      /\ jobs[id].error = NULL

\* C5: a job whose status reads completed carries its serialized result.
C5_CompletedHasResult ==
  \A id \in DOMAIN jobs :
    (jobs[id].exists /\ jobs[id].status = "completed") =>
      \E r \in GenResults : jobs[id].result = <<Serialize(r)>>

\* the events of one kind in what a loop did to its batch, and their jobs
Events(l, kind) == SelectSeq(trace[l], LAMBDA e : e[2] = kind)

HasEvent(l, id, kind) == \E p \in 1..Len(trace[l]) : trace[l][p] = <<id, kind>>

C7_FetchFailureSkipsCycle ==
  /\ [](\A l \in LoopIds :
          loops[l].fetch_err =>
            /\ loops[l].pc \in {"sleep", "check"}
            /\ loops[l].batch = <<>>
            /\ trace[l] = <<>>)
  /\ [][\A l \in LoopIds :
          (loops'[l] # loops[l] /\ (loops[l].fetch_err \/ loops'[l].fetch_err))
            => jobs' = jobs /\ scenes' = scenes]_vars
  /\ \A l \in LoopIds : loops[l].fetch_err ~> (loops[l].pc = "fetch")

\* the fetch failed while a job was pending, and the loop is through its sleep
C7_Witness ==
  \E l \in LoopIds :
    /\ loops[l].fetch_err
    /\ loops[l].pc = "check"
    /\ PendingIds(jobs) # {}

C9_OneJobAtATime ==
  Cardinality(SpawnedLoops) <= 1 =>
    /\ Cardinality(inflight) <= 1
    /\ \A e \in inflight :
         /\ loops[e[1]].pc = "gen_wait"
         /\ CurJob(e[1]) = e[2]
    /\ \A l \in LoopIds : \A p \in 2..Len(trace[l]) :
         trace[l][p][2] = "mark" =>
           /\ trace[l][p - 1][2] \in {"completed", "fail_write"}
           /\ trace[l][p - 1][1] = loops[l].batch[Len(SelectSeq(SubSeq(trace[l], 1, p),
                                                   LAMBDA e : e[2] = "mark")) - 1]

\* the second job of a batch is being generated after the first was completed
C9_Witness ==
  \E l \in LoopIds :
    /\ loops[l].idx = 2
    /\ inflight = {<<l, loops[l].batch[2]>>}
    /\ HasEvent(l, loops[l].batch[1], "completed")

BadDoc(d) == d.provider # "string" \/ d.prompt # "string"

\* C10: a job whose document lacks a string provider or a string prompt goes
\* pending, running, failed; once the failure write is through its error names
\* the field that is missing; no generate call is made for it.
C10_BadDocumentFails ==
  \A id \in DOMAIN jobs :
    BadDoc(jobs[id].data) =>
      /\ hist[id] \in {<<"pending">>, <<"pending", "running">>,
                       <<"pending", "running", "failed">>}
      /\ (/\ jobs[id].status = "failed"
          /\ ~\E l \in LoopIds : loops[l].pc = "fail_error" /\ CurJob(l) = id)
           => jobs[id].error = (IF jobs[id].data.provider # "string"
                                  THEN "Missing provider in job data"
                                  ELSE "Missing prompt in job data")
      /\ jobs[id].result = None
      /\ \A l \in LoopIds : <<l, id>> \notin inflight /\ ~HasEvent(l, id, "generate")
      /\ \A l \in LoopIds :
           (loops[l].idx > 0 /\ CurJob(l) = id /\ loops[l].pc \in {"iter", "sleep"})
             => jobs[id].status = "failed"

\* a job without a prompt has gone pending, running, failed
C10_Witness ==
  \E id \in DOMAIN jobs :
    /\ jobs[id].data = NoPrompt
    /\ hist[id] = <<"pending", "running", "failed">>
    /\ jobs[id].error = MissingPrompt

\* C11: a step that changes the status, result or error of a stored job is a
\* step of a processor loop; no command changes these fields.
C11_ProcessorOnlyWriter ==
  [][\A id \in DOMAIN jobs :
       (\/ jobs'[id].status # jobs[id].status
        \/ jobs'[id].result # jobs[id].result
        \/ jobs'[id].error # jobs[id].error) => loops' # loops]_vars

\* what save_base64_to_file decodes from the payload d
Decoded(d) == Base64Decode(StripWhitespace(AfterComma(TextOf(d))))

\* the provider's result carries a payload that generate tries to save
HasPayload(r) == r.output_data # NULL /\ r.output_data # ""

\* C12: when the provider's output_data is non-empty, decodes as base64 and the
\* file write succeeds, generate returns the result with output_data cleared,
\* file_path naming the file just written with the decoded bytes and output_url
\* the asset reference to that file_path, whatever output_url the provider gave;
\* the job of such a call is completed with exactly that result stored.
C12_PayloadSavedToFile ==
  /\ (/\ Calling /\ Call.phase = "done" /\ Call.raw # None
      /\ HasPayload(Call.raw[1])
      /\ Decoded(Call.raw[1].output_data).ok
      /\ Call.env = "ok")
       => LET n == Len(svc.files)
          IN /\ n > 0
             /\ svc.files[n] = Decoded(Call.raw[1].output_data).bytes
             /\ Call.err = NoError
             /\ Call.res = <<[output_url |-> AssetUrl(FilePath(n)),
                              output_data |-> NULL,
                              file_path |-> FilePath(n)]>>
  /\ \A l \in LoopIds :
       (loops[l].pc = "thumb" /\ loops[l].res[1].file_path # NULL)
         => /\ jobs[CurJob(l)].status = "completed"
            /\ jobs[CurJob(l)].result = <<Serialize(loops[l].res[1])>>
            /\ loops[l].res[1].output_data = NULL
            /\ loops[l].res[1].output_url = AssetUrl(loops[l].res[1].file_path)
            /\ \E n \in 1..Len(svc.files) : loops[l].res[1].file_path = FilePath(n)

\* a job is completed and its stored result points at the file written for it
C12_Witness ==
  \E id \in DOMAIN jobs :
    /\ jobs[id].status = "completed"
    /\ Len(svc.files) = 1
    /\ jobs[id].result = <<Serialize([output_url |-> AssetUrl(FilePath(1)),
                                      output_data |-> NULL,
                                      file_path |-> FilePath(1)])>>

\* C13: when the payload does not decode, there is no home directory, the
\* directory cannot be made or the file cannot be written, generate returns Ok
\* with the provider's result as it was and writes no file.
C13_FailedSaveKeepsResult ==
  [][(/\ Calling /\ Call.phase = "returned" /\ Call.raw # None
      /\ HasPayload(Call.raw[1])
      /\ svc'.call # None /\ svc'.call[1].phase = "done"
      /\ (svc'.call[1].env # "ok" \/ ~Decoded(Call.raw[1].output_data).ok))
       => /\ svc'.call[1].res = Call.raw
          /\ svc'.call[1].err = NoError
          /\ svc'.files = svc.files]_vars

\* generate has returned the provider's url and payload after a failed write
C13_Witness ==
  /\ Calling /\ Call.phase = "done"
  /\ Call.env = "write_error"
  /\ Call.raw = <<[output_url |-> "url", output_data |-> "A", file_path |-> NULL]>>
  /\ Call.res = Call.raw
  /\ svc.files = <<>>

\* C14: a scene changes only in the thumbnail step of a loop whose job is stored
\* as completed and names that scene, and it becomes the result's output_url if
\* there is one and its output_data otherwise; the thumbnail step, failed or
\* not, leaves the job as it is; a job that failed or has no scene_id changes
\* no scene.
C14_ThumbnailAfterCompleted ==
  [][/\ scenes' # scenes =>
          \E l \in LoopIds :
            /\ loops[l].pc = "thumb" /\ loops'[l].pc = "iter"
            /\ jobs[CurJob(l)].status = "completed"
            /\ "failed" \notin {hist[CurJob(l)][i] : i \in 1..Len(hist[CurJob(l)])}
            /\ jobs[CurJob(l)].scene_id # NoScene
            /\ \A s \in DOMAIN scenes :
                 scenes'[s] = IF s # jobs[CurJob(l)].scene_id THEN scenes[s]
                              ELSE IF loops[l].res[1].output_url # NULL
                                THEN loops[l].res[1].output_url
                              ELSE loops[l].res[1].output_data
     /\ \A l \in LoopIds :
          (loops[l].pc = "thumb" /\ loops'[l].pc # "thumb")
            => /\ jobs' = jobs
               /\ jobs[CurJob(l)].status = "completed"]_vars

\* the thumbnail of the scene is the url of a result that also has a payload
C14_Witness ==
  /\ scenes[1] = "url"
  /\ \E id \in DOMAIN jobs :
       /\ jobs[id].scene_id = 1
       /\ jobs[id].status = "completed"
       /\ jobs[id].result[1].json.output_data = "A"

\* the model is one the provider's generate matches on
Recognized(p, m) == m \in ImageModels(p) \cup VideoModels(p)

\* C15 as stated: every generate call on an instance without configuration
\* ends with the not-configured error and has sent no request.
C15_UnconfiguredNotConfigured ==
  (Calling /\ ~Call.configured /\ Call.phase \in {"returned", "done"})
    => /\ Call.err = NotConfigured(Call.provider)
       /\ Call.http = 0

\* C15 (amended): a generate call on an instance without configuration sends
\* no request and fails without a result; the error is the not-configured one
\* except where the provider fails before it looks at the configuration: the
\* unsupported-model error of openai, google and grok for a model they do not
\* list, and the coming-soon error of midjourney.
C15_UnconfiguredFailsOffline ==
  (Calling /\ ~Call.configured)
    => /\ Call.http = 0
       /\ Call.phase \in {"route", "config", "returned", "done"}
       /\ Call.phase \in {"returned", "done"}
            => /\ Call.raw = None /\ Call.res = None
               /\ Call.err =
                    CASE Call.provider = "midjourney" -> ComingSoon
                      [] /\ Call.provider \in {"openai", "google", "grok"}
                         /\ ~Recognized(Call.provider, Call.model)
                           -> UnsupportedModel(Call.model)
                      [] OTHER -> NotConfigured(Call.provider)

\* an unconfigured openai instance has refused a request for a model it lists
C15_Witness ==
  /\ Calling /\ Call.phase = "done"
  /\ ~Call.configured
  /\ Call.provider = "openai" /\ Call.model = "sora-2"
  /\ Call.err = NotConfigured("openai")
  /\ Call.http = 0

\* C16: a generate call whose model the provider does not recognize ends with
\* the unsupported-model error naming that model and has sent no request.
C16_UnknownModelRejected ==
  (/\ Calling /\ Call.phase \in {"returned", "done"}
   /\ ~Recognized(Call.provider, Call.model))
    => /\ Call.err = UnsupportedModel(Call.model)
       /\ Call.http = 0

\* the final poll responses that carry an error object with a message in it
ErrorObjectResponses == {"done_error", "failed_object"}

\* C17: a video poller whose last response is a done response carrying an error
\* object makes the generate call fail with the message of that object and
\* without a result.
C17_EmbeddedErrorReported ==
  (/\ Calling /\ Call.phase \in {"returned", "done"}
   /\ Call.last \in ErrorObjectResponses)
    => /\ Call.err = GenerationFailed(EmbeddedMessage)
       /\ Call.raw = None /\ Call.res = None

\* the poller of the call has been entered
Polling == Calling /\ Call.delay > 0

PollerReturned == Polling /\ Call.phase \in {"returned", "done"}

\* C18: an invocation of a poller (Google video, OpenAI video, ComfyUI history)
\* makes at most 60 status polls and returns in exactly one of Done (a result,
\* no error), Failed or TimedOut (an error, no result); it is TimedOut exactly
\* when 60 polls were made and the last one was not terminal either; and every
\* invocation that is polling does return.
C18_PollerTerminates ==
  /\ [](Polling =>
          /\ Call.polled <= 60
          /\ Call.polled = Call.attempt
          /\ Call.ending \in {"none", "Done", "Failed", "TimedOut"}
          /\ PollerReturned <=> Call.ending # "none"
          /\ Call.ending = "Done" => Call.raw # None /\ Call.err = NoError
          /\ Call.ending \in {"Failed", "TimedOut"} => Call.raw = None /\ Call.err # NoError
          /\ Call.ending = "TimedOut" <=>
               (/\ PollerReturned /\ Call.polled = 60
                /\ Call.last \in NonTerminal(Call.provider))
          /\ Call.ending = "TimedOut" => Call.err = TimedOutError)
  /\ ((Polling /\ ~PollerReturned) ~> (~Calling \/ PollerReturned))

\* a poller has given up after 60 polls none of which was terminal
C18_Witness ==
  /\ Polling /\ Call.phase = "returned"
  /\ Call.ending = "TimedOut"
  /\ Call.polled = 60
  /\ Call.provider = "comfyui"

\* C19: in every poller the delay before the first poll is between 5 s and
\* 10 s, the delay never exceeds 60 s, and after a poll that was not terminal
\* the delay is larger than before it unless it had reached the 60 s cap.
C19_DelayGrowsToCap ==
  /\ [](Polling =>
          /\ Call.delay <= 60000
          /\ Call.attempt = 0 => (Call.delay >= 5000 /\ Call.delay <= 10000))
  /\ [][(/\ Calling /\ Call.phase = "poll_request"
         /\ svc'.call # None /\ svc'.call[1].phase = "poll")
          => (svc'.call[1].delay > Call.delay \/ Call.delay = 60000)]_vars

\* C20: a video poller that ends TimedOut has slept no more than 1800 s in all.
C20_TimedOutWithinHalfHour ==
  (/\ Polling /\ Call.provider \in {"google", "openai"}
   /\ Call.ending = "TimedOut")
    => Call.total <= 1800 * 1000

\* C21: in every poller a status poll answered with a non-2xx status ends the
\* invocation at once as Failed with the remote error; no poll follows it.
C21_BadStatusEndsPolling ==
  (Polling /\ Call.last = "http_error")
    => /\ Call.phase \in {"returned", "done"}
       /\ Call.ending = "Failed"
       /\ Call.err = HttpError

\* the responses that report completion without an output url in any of the
\* places the poller looks at
NoUrlResponses == {"done_nourl", "completed_nourl"}

\* C22: a poller that is told of a successful completion without an output url
\* fails with the malformed-response error; no poller returns Ok with a result
\* whose output_url is absent.
C22_MissingUrlIsMalformed ==
  /\ (Polling /\ Call.ending = "Done") => Call.raw[1].output_url # NULL
  /\ (PollerReturned /\ Call.last \in NoUrlResponses)
       => Call.err = BadResponse /\ Call.raw = None

\* C23: a configure_provider or configure_local_provider call that returns Ok
\* leaves under its name the instance built from the credential or endpoint it
\* was given (configured, hence available) and every other entry of the
\* registry as it was.
C23_ConfigureReplacesOneEntry ==
  [][(svc.waiting # None /\ svc'.waiting = None /\ svc'.outcome = "ok")
       => LET w == svc.waiting[1]
          IN /\ DOMAIN svc'.registry = DOMAIN svc.registry
             /\ w.name \in ListProviders(svc'.registry)
             /\ svc'.registry[w.name] = [present |-> TRUE, cred |-> w.cred]
             /\ svc'.registry[w.name].cred # 0
             /\ \A n \in DOMAIN svc.registry \ {w.name} :
                  svc'.registry[n] = svc.registry[n]]_vars

\* a second configure call has returned Ok and the entry of the first is kept
C23_Witness ==
  /\ svc.outcome = "ok" /\ budget.cfgs = 0
  /\ svc.registry["comfyui"] = Configured(1)
  /\ svc.registry["openai"] = Configured(2)

\* C24: before any configure call the registry lists every name that
\* configure_provider or configure_local_provider accepts, each with an
\* instance that has no configuration.
C24_PlaceholdersAtStartup ==
  (svc.registry = StartupRegistry /\ svc.outcome = "none")
    => \A n \in ApiKeyProviders \cup LocalProviders :
         /\ n \in ListProviders(svc.registry)
         /\ svc.registry[n].cred = 0

\* C25: no read guard of the service is alive while generate is suspended in
\* an HTTP request, a poller sleep or a file write, and no configure command
\* waits for the lock during one.
C25_NoLockAcrossSuspension ==
  (Calling /\ Call.phase \in SuspendedPhases)
    => /\ svc.readers = 0
       /\ svc.waiting = None

\* C26: while a generate call is under way the registry entry of its provider
\* is the instance that was resolved when the call began, and the call works
\* with the configuration of that instance, whatever configure command is
\* invoked in between.
C26_InstanceFixedDuringCall ==
  (Calling /\ svc.resolved # None)
    => /\ svc.registry[Call.provider] = svc.resolved[1]
       /\ svc.resolved[1].present => (Call.configured <=> svc.resolved[1].cred # 0)
       /\ ~svc.resolved[1].present => Call.err = NotFound(Call.provider)

\* a configure command for the provider of a call that is polling is waiting
\* with another credential
C26_Witness ==
  /\ Calling /\ Call.phase = "poll_request" /\ Call.polled > 0
  /\ svc.resolved # None /\ svc.resolved[1].cred = 1
  /\ svc.waiting # None
  /\ svc.waiting[1].name = Call.provider
  /\ svc.waiting[1].cred = 2

\* C27: the mark-running statement of a loop looks at nothing but the id: when
\* it is answered, the job is running and the loop goes on to generate,
\* whatever the status of the job was and whichever loop holds the job in its
\* batch; so with two loops on one store a pending job can be fetched by both
\* and generated twice.
C27_NoClaimOnMarkRunning ==
  [][\A l \in LoopIds :
       (loops[l].pc = "run_status" /\ loops'[l].pc = "run_get"
        /\ Live(jobs, CurJob(l)))
         => /\ jobs'[CurJob(l)].status = "running"
            /\ loops'[l].batch = loops[l].batch]_vars

\* both loops have the same job in their generate call
C27_Witness ==
  \E id \in DOMAIN jobs :
    /\ Cardinality(SpawnedLoops) = 2
    /\ \A l \in LoopIds : <<l, id>> \in inflight /\ HasEvent(l, id, "generate")

\* the call of extract_base64_from_data_url has returned
Extracted == svc.util # None /\ Util.fn = "extract" /\ Util.out # None

\* C28 as stated: extract_base64_from_data_url succeeds exactly on strings that
\* start with "data:", have a comma and have "base64" before the first comma,
\* each violation giving an error; on success it returns the text between
\* the "data:" at the start and the first ';' (looked for before the comma) and
\* everything after the first comma.
C28_MimeUpToFirstSemicolon ==
  Extracted =>
    LET u == Util.input
        o == Util.out[1]
    IN /\ o.ok <=> (/\ StartsWith(u, DataPrefix)
                    /\ Find(u, ",") > 0
                    /\ Contains(SubSeq(u, 1, Find(u, ",") - 1), Base64Word))
       /\ ~o.ok => o.err \in {NotDataUrl, MissingComma, NotBase64}
       /\ o.ok => /\ o.data = SubSeq(u, Find(u, ",") + 1, Len(u))
                  /\ LET semi == Find(SubSeq(u, 1, Find(u, ",") - 1), ";")
                     IN semi > 0 => o.mime = SubSeq(u, Len(DataPrefix) + 1, semi - 1)

\* the text of t after every leading "data:"
RECURSIVE AfterDataPrefixes(_)
AfterDataPrefixes(t) ==
  IF Len(t) >= 5 /\ t[1] = "d" /\ t[2] = "a" /\ t[3] = "t" /\ t[4] = "a" /\ t[5] = ":"
    THEN AfterDataPrefixes(SubSeq(t, 6, Len(t)))
    ELSE t

\* C28 (amended): the success condition and the errors are as stated and the
\* data is everything after the first comma; the MIME type is read in the text
\* before the first comma only, after every leading "data:" is taken off: it is
\* what stands there before the first ';', or all of it when there is no ';'.
C28_MimeFromMetadata ==
  Extracted =>
    LET u == Util.input
        o == Util.out[1]
        c == Find(u, ",")
        m == AfterDataPrefixes(SubSeq(u, 1, c - 1))
    IN /\ o.ok <=> (/\ StartsWith(u, DataPrefix)
                    /\ c > 0
                    /\ Contains(SubSeq(u, 1, c - 1), Base64Word))
       /\ ~StartsWith(u, DataPrefix) => o.err = NotDataUrl
       /\ (StartsWith(u, DataPrefix) /\ c = 0) => o.err = MissingComma
       /\ (StartsWith(u, DataPrefix) /\ c > 0 /\ ~o.ok) => o.err = NotBase64
       /\ o.ok => /\ o.err = NULL
                  /\ o.data = SubSeq(u, c + 1, Len(u))
                  /\ \A i \in 1..Len(o.mime) : o.mime[i] # ";"
                  /\ \/ o.mime = m
                     \/ /\ Len(m) > Len(o.mime)
                        /\ SubSeq(m, 1, Len(o.mime)) = o.mime
                        /\ m[Len(o.mime) + 1] = ";"

\* "data:p;base64,p" has been taken apart into "p" and "p"
C28_Witness ==
  /\ Extracted
  /\ Util.input = DataPrefix \o <<"p", ";">> \o Base64Word \o <<",", "p">>
  /\ Util.out[1] = [ok |-> TRUE, mime |-> <<"p">>, data |-> <<"p">>, err |-> NULL]

\* C29: a base64 data URL with nothing between "data:" and the first ';' gets
\* the MIME type "image/png".
C29_DefaultMime ==
  (/\ Extracted
   /\ StartsWith(Util.input, DataPrefix \o <<";">>)
   /\ Util.out[1].ok)
    => Util.out[1].mime = ImagePng

\* the call of get_reference_image_params has returned
ParamsReturned == svc.util # None /\ Util.fn = "params" /\ Util.out # None

\* C30: each of the five values get_reference_image_params returns depends on
\* its own key only: it is the value under the key when a usable one (a
\* number; a string for resizeMode and controlnetType) is there and the default
\* of the field (0.75, 0.70, "crop", None, 1.0) otherwise, whatever the other
\* keys hold; without a reference_image all five are the defaults.
C30_DefaultsPerField ==
  ParamsReturned =>
    LET r == Util.input
        o == Util.out[1]
    IN IF r.kind # "object"
         THEN o = [strength |-> [f32 |-> 75], denoising |-> [f32 |-> 70],
                   resize_mode |-> "crop", controlnet_type |-> None,
                   controlnet_strength |-> [f32 |-> 100]]
         ELSE /\ o.strength =
                   [f32 |-> IF r.strength.t = "number" THEN r.strength.n ELSE 75]
              /\ o.denoising =
                   [f32 |-> IF r.denoisingStrength.t = "number"
                              THEN r.denoisingStrength.n ELSE 70]
              /\ o.resize_mode =
                   (IF r.resizeMode.t = "string" THEN r.resizeMode.s ELSE "crop")
              /\ o.controlnet_type =
                   (IF r.controlnetType.t = "string" THEN <<r.controlnetType.s>> ELSE None)
              /\ o.controlnet_strength =
                   [f32 |-> IF r.controlnetStrength.t = "number"
                              THEN r.controlnetStrength.n ELSE 100]

\* only denoisingStrength and controlnetType were supplied
C30_Witness ==
  /\ ParamsReturned
  /\ Util.input = [kind |-> "object", strength |-> JAbsent,
                   denoisingStrength |-> JNum(85), resizeMode |-> JAbsent,
                   controlnetType |-> JStr("fill"), controlnetStrength |-> JAbsent]
  /\ Util.out[1] = [strength |-> AsF32(75), denoising |-> AsF32(85),
                    resize_mode |-> "crop", controlnet_type |-> <<"fill">>,
                    controlnet_strength |-> AsF32(100)]

\* C31: over any sequence of registrations and configure calls the registry
\* holds one instance per name, under the name() of the instance; the entry of
\* a name is the instance last registered for it, so an entry changes only by
\* a registration under its name, and list_providers returns the names that
\* have been registered: no name ever leaves the list.
C31_LastRegistrationWins ==
  [][/\ DOMAIN svc'.registry = Providers
     /\ \A n \in Providers :
          svc'.registry[n] # svc.registry[n]
            => /\ svc.waiting # None /\ svc.waiting[1].name = n
               /\ svc'.registry[n] = Configured(svc.waiting[1].cred)
     /\ ListProviders(svc.registry) \subseteq ListProviders(svc'.registry)]_vars

\* C38: a configure_provider or configure_local_provider call that returns
\* the unknown-provider error leaves the registry as it was before the call,
\* for every name, also one registered under the other kind of provider.
C38_FailedConfigureKeepsRegistry ==
  [][(svc.waiting # None /\ svc'.waiting = None /\ svc'.outcome = "unknown_provider")
       => svc'.registry = svc.registry]_vars

\* C32: with a single processor loop a job is submitted to
\* GenerationService::generate at most once over its whole lifetime: no
\* generate call begins for a job that was handed to generate before.
C32_GenerateOncePerJob ==
  [][\A l \in LoopIds, id \in DOMAIN jobs :
       (<<l, id>> \in inflight' /\ <<l, id>> \notin inflight)
         => id \notin svc.submitted]_vars

\* the statuses after which the processor leaves a job alone
Terminal == {"completed", "failed"}

\* C33: completed_at is set exactly when the status of a job is completed or
\* failed: the update that writes a terminal status sets it to the time of
\* that update, and it is unset while the job is pending or running, also
\* after the job has left a terminal status again.
C33_CompletedAtIffTerminal ==
  /\ [](\A id \in DOMAIN jobs :
          jobs[id].exists =>
            (jobs[id].completed_at # NoTime <=> jobs[id].status \in Terminal))
  /\ [][\A id \in DOMAIN jobs :
          (jobs'[id].exists /\ jobs'[id].status \in Terminal
             /\ jobs'[id].status # jobs[id].status)
            => jobs'[id].completed_at = clock]_vars

\* a job that failed was set back to pending, which cleared completed_at, and
\* has reached a terminal status a second time
C33_Witness ==
  \E id \in DOMAIN jobs :
    /\ jobs[id].status \in Terminal
    /\ jobs[id].completed_at # NoTime
    /\ \E i \in 1..(Len(hist[id]) - 1) :
         hist[id][i] \in Terminal /\ hist[id][i + 1] = "pending"

\* the spawned tasks that have not left their while loop
AliveLoops == {l \in LoopIds : loops[l].pc \notin {"none", "exited"}}

\* C34: whatever start and stop calls are made on the processor, at most one
\* background loop is alive at any time.
C34_AtMostOneLoopAlive == Cardinality(AliveLoops) <= 1

\* C35: once stop has been called and no start sets the flag again, every
\* background loop eventually leaves its while loop; a loop that reads the
\* cleared flag exits without fetching, a batch is fetched only after the
\* flag was read as set, and a loop that has exited does nothing more: once
\* all loops have exited no job is marked running.
C35_StoppedLoopExits ==
  /\ (<>[](~is_running)) => <>[](AliveLoops = {})
  /\ [][\A l \in LoopIds :
          /\ (loops[l].pc = "check" /\ loops'[l].pc # "check")
               => loops'[l].pc = (IF is_running THEN "fetch" ELSE "exited")
          /\ (loops'[l].pc = "fetch" /\ loops[l].pc # "fetch")
               => (loops[l].pc = "check" /\ is_running)
          /\ loops[l].pc = "exited" => loops'[l] = loops[l]]_vars
  /\ [][(AliveLoops = {} /\ \A c \in Callers : callers[c] # "spawn")
          => \A id \in DOMAIN jobs :
               jobs'[id].status = "running" => jobs[id].status = "running"]_vars

\* stop was called and no start is under way; the loop has finished the batch
\* it was in and exited
C35_Witness ==
  /\ budget.stopped = 1 /\ ~is_running
  /\ \A c \in Callers : callers[c] = "idle"
  /\ AliveLoops = {}
  /\ \E l \in LoopIds : loops[l].pc = "exited" /\ trace[l] # <<>>

\* C36: while the loop runs and every provider call returns, every job that
\* was created eventually reaches completed or failed, so none stays running
\* for ever, also when statements of the job store fail.
C36_EveryJobFinishes ==
  \A id \in 1..MaxJobs :
    [](id \in DOMAIN jobs => <>(id \in DOMAIN jobs /\ jobs[id].status \in Terminal))

\* C37: in every state of the job store result and error exclude each other:
\* a completed job has its result and no error, a failed job has its error
\* and no result, and no job has both.
C37_ResultXorError ==
  \A id \in DOMAIN jobs :
    jobs[id].exists =>
      /\ ~(jobs[id].result # None /\ jobs[id].error # NULL)
      /\ jobs[id].status = "completed"
           => (jobs[id].result # None /\ jobs[id].error = NULL)
      /\ jobs[id].status = "failed"
           => (jobs[id].error # NULL /\ jobs[id].result = None)

\* C39: the text a text provider assembles from the content blocks of the
\* response is what generate returns in output_data and what call_ai returns
\* to its caller, whatever the text is; normalization does not turn a text
\* answer into a file reference.
C39_TextAnswerReturned ==
  (Calling /\ Call.phase = "done" /\ Call.route = "text" /\ Call.raw # None)
    => /\ Call.res # None
       /\ Call.res[1].output_data = Call.raw[1].output_data
       /\ Call.res[1].output_url = NULL
       /\ Call.res[1].file_path = NULL
       /\ CallAiReturn(Call.res[1]) = [ok |-> TRUE, text |-> Call.raw[1].output_data]
====
